---------------------------- MODULE Spec2Model ----------------------------
(***************************************************************************)
(* WrappedClient (src/src/WrappedClient.ts): the two command registries,   *)
(* the registration methods, login with its three event subscriptions,     *)
(* and the messageCreate / interactionCreate / ready callbacks.            *)
(*                                                                         *)
(* Strings are sequences of one-character strings.  An optional value is a *)
(* pair of a presence flag and the value (canonical when absent).          *)
(* The identifiers enumerated here are short strings; none of them is a    *)
(* member name of Object.prototype, so a registry lookup of an             *)
(* unregistered identifier yields undefined.                               *)
(*                                                                         *)
(* Every record constructor lists its fields in the order in which the     *)
(* field names first occur in this module.                                 *)
(***************************************************************************)
EXTENDS Integers, Sequences, FiniteSets, TLC

VARIABLES
    prefix,                 \* this.prefix
    messageCommands,        \* this.messageCommands: name -> definition
    commands,               \* this.commands: name -> definition
    globalPayloads,         \* Payload: definitions queued by addGlobalPayload
    guildPayloads,          \* Payload: entries queued by addGuildPayload
    pushCount,              \* number of Payload.pushPayloads() calls so far
    pushedGlobal,           \* the global payloads covered by the flushes
    pushedGuild,            \* the guild payloads covered by the flushes
    loginAwaiting,          \* login() calls suspended at `await client.login`
    loginCalls,             \* login() calls made so far
    readyListeners,         \* pending client.once("ready") listeners
    messageListeners,       \* client.on("messageCreate") listeners
    interactionListeners,   \* client.on("interactionCreate") listeners
    readyEmitted,           \* the connection has signalled ready
    attempted,              \* <<namespace, name>> of every registration call
    queuedAtLogin,          \* the payloads queued when login() was first called
    pending,                \* callbacks whose returned promise has not settled
    obs                     \* the most recent operation and its outcome

vars == <<prefix, messageCommands, commands, globalPayloads, guildPayloads,
          pushCount, pushedGlobal, pushedGuild, loginAwaiting, loginCalls,
          readyListeners, messageListeners, interactionListeners,
          readyEmitted, attempted, queuedAtLogin, pending, obs>>

---------------------------------------------------------------------------
(* Bounds *)

MaxLogins == 2      \* login() calls in one behaviour
MaxLen == 4         \* characters in a message content (tokenizer inputs)

---------------------------------------------------------------------------
(* Strings *)

\* String.prototype.startsWith
StartsWith(s, p) == Len(p) <= Len(s) /\ SubSeq(s, 1, Len(p)) = p

\* String.prototype.substring(n)
Substring(s, n) == SubSeq(s, n + 1, Len(s))

\* String.prototype.split(" "): cuts at every single space character, so
\* adjacent spaces, a leading or a trailing space give empty tokens, and
\* the empty string gives one empty token.
RECURSIVE Split(_)
Split(s) ==
    IF s = <<>> THEN << <<>> >>
    ELSE LET rest == Split(Tail(s)) IN
         IF Head(s) = " "
         THEN << <<>> >> \o rest
         ELSE << <<Head(s)>> \o Head(rest) >> \o Tail(rest)


\* n copies of the sequence s, one after the other
RECURSIVE Repeat(_, _)
Repeat(s, n) == IF n = 0 THEN <<>> ELSE s \o Repeat(s, n - 1)

---------------------------------------------------------------------------
(* Values the program receives *)

Chars == {"!", " ", "a"}                    \* characters of a message content
Names == {<<"a">>, <<"a", "a">>}            \* command names / custom ids
Callbacks == {"cb1", "cb2"}                 \* callback functions
Prefixes == {<<"!">>, <<"a">>, <<>>}        \* arguments of setPrefix
Flags == {"ADMINISTRATOR", "KICK_MEMBERS"}  \* capability flags
Roles == {"roleA", "roleB"}                 \* role ids
Guilds == {"g1"}                            \* guild ids
Kinds == {"slash", "button", "context", "select"}

\* permissions: { flags?, allowed?, denied? }
RuleSets ==
    {p \in [hasFlags: BOOLEAN, flags: SUBSET Flags,
            hasAllowed: BOOLEAN, allowed: SUBSET Roles,
            hasDenied: BOOLEAN, denied: SUBSET Roles] :
        /\ (~p.hasFlags => p.flags = {})
        /\ (~p.hasAllowed => p.allowed = {})
        /\ (~p.hasDenied => p.denied = {})}

\* the canonical rule set of a command that has none (getPermissions()
\* returns undefined)
NoRules == [hasFlags |-> FALSE, flags |-> {}, hasAllowed |-> FALSE,
            allowed |-> {}, hasDenied |-> FALSE, denied |-> {}]

\* message.member: absent, or a guild member with its bot flag, its
\* capability flags and its roles
Members ==
    {m \in [hasMember: BOOLEAN, bot: BOOLEAN,
            permissions: SUBSET Flags, roles: SUBSET Roles] :
        ~m.hasMember => (~m.bot /\ m.permissions = {} /\ m.roles = {})}

\* a resolved, non-bot member holding nothing
PlainMember == [hasMember |-> TRUE, bot |-> FALSE,
                permissions |-> {}, roles |-> {}]

\* all strings over Chars of at most n characters
RECURSIVE Strings(_)
Strings(n) ==
    IF n = 0 THEN {<<>>}
    ELSE LET shorter == Strings(n - 1) IN
         shorter \cup {Append(s, c) : s \in {t \in shorter : Len(t) = n - 1},
                                      c \in Chars}

---------------------------------------------------------------------------
(* Registry lookups *)

\* this.messageCommands[name] / this.commands[name] is truthy
Has(registry, name) == name \in DOMAIN registry

\* registry[name] = command
Put(registry, name, command) ==
    [k \in DOMAIN registry \cup {name} |->
        IF k = name THEN command ELSE registry[k]]

---------------------------------------------------------------------------
(* messageCreate callback *)

\* Mutant of IsInvocation: the prefix is stripped but never compared.
IsInvocationUnchecked(command) == command # <<>>

\* line 55: the first token is non-empty and starts with the prefix
IsInvocation(command) == command # <<>> /\ StartsWith(command, prefix)

\* lines 72-73: flags is set and the author holds one of the listed flags
FlagsPass(author, permissions) ==
    permissions.hasFlags /\ author.permissions \cap permissions.flags # {}

\* Mutant of ListsPass: the allow list is consulted before the deny list.
ListsAllowFirst(author, permissions) ==
    IF ~permissions.hasAllowed /\ ~permissions.hasDenied THEN TRUE
    ELSE IF permissions.hasAllowed /\ author.roles \cap permissions.allowed # {}
         THEN TRUE
    ELSE FALSE

\* Mutant of ListsPass: the author must hold no role outside the allow list.
ListsRequireAll(author, permissions) ==
    IF ~permissions.hasAllowed /\ ~permissions.hasDenied THEN TRUE
    ELSE IF permissions.hasDenied /\ author.roles \cap permissions.denied # {}
         THEN FALSE
    ELSE IF permissions.hasAllowed /\ author.roles # {}
            /\ author.roles \subseteq permissions.allowed
         THEN TRUE
    ELSE FALSE

\* lines 78-91: the allow / deny lists
ListsPass(author, permissions) ==
    IF ~permissions.hasAllowed /\ ~permissions.hasDenied THEN TRUE
    ELSE IF permissions.hasDenied /\ author.roles \cap permissions.denied # {}
         THEN FALSE
    ELSE IF permissions.hasAllowed /\ author.roles \cap permissions.allowed # {}
         THEN TRUE
    ELSE FALSE

\* Mutant of Invokes: no check that the author is a bot.
InvokesBots(message, commandData) ==
    IF ~message.hasMember THEN FALSE
    ELSE IF commandData.callback = "none" THEN FALSE
    ELSE IF ~commandData.hasPermissions THEN TRUE
    ELSE IF FlagsPass(message, commandData.permissions) THEN TRUE
    ELSE ListsPass(message, commandData.permissions)

\* lines 59-91: whether the callback of commandData is called for the message
Invokes(message, commandData) ==
    IF ~message.hasMember THEN FALSE
    ELSE IF message.bot THEN FALSE
    ELSE IF commandData.callback = "none" THEN FALSE
    ELSE IF ~commandData.hasPermissions THEN TRUE
    ELSE IF FlagsPass(message, commandData.permissions) THEN TRUE
    ELSE ListsPass(message, commandData.permissions)

\* Mutant of MessageCreateCallback: messages are handled one at a time, a
\* message that arrives while a callback's promise is pending is not routed.
MessageCreateSerial(message) ==
    LET tokens == Split(message.content)
        command == Head(tokens)
        args == Tail(tokens)
        name == Substring(command, Len(prefix))
    IN  IF pending = {} /\ IsInvocation(command)
           /\ Has(messageCommands, name)
           /\ Invokes(message, messageCommands[name])
        THEN << [callback |-> messageCommands[name].callback,
                 args |-> <<args>>] >>
        ELSE <<>>

\* lines 51-94: the callback invocations one listener makes for a message
MessageCreateCallback(message) ==
    LET tokens == Split(message.content)
        command == Head(tokens)
        args == Tail(tokens)
        name == Substring(command, Len(prefix))
    IN  IF IsInvocation(command) /\ Has(messageCommands, name)
           /\ Invokes(message, messageCommands[name])
        THEN << [callback |-> messageCommands[name].callback,
                 args |-> <<args>>] >>
        ELSE <<>>

---------------------------------------------------------------------------
(* interactionCreate callback *)

NoTarget == [present |-> FALSE, type |-> "none", id |-> "none"]

\* lines 116-132: the target of a context-menu interaction
ResolveTarget(interaction) ==
    IF ~interaction.hasGuild THEN NoTarget
    ELSE IF interaction.targetType = "USER"
         THEN IF interaction.targetId \in interaction.members
              THEN [present |-> TRUE, type |-> "user",
                    id |-> interaction.targetId]
              ELSE NoTarget
    ELSE IF interaction.targetType = "MESSAGE"
         THEN IF interaction.hasChannel
                 /\ interaction.targetId \in interaction.messages
              THEN [present |-> TRUE, type |-> "message",
                    id |-> interaction.targetId]
              ELSE NoTarget
    ELSE NoTarget

\* the arguments after the event that the branch of the interaction's kind
\* passes to the callback (lines 104, 110, 134, 140)
CallbackArgs(interaction) ==
    CASE interaction.kind = "slash" -> <<interaction.options>>
      [] interaction.kind = "button" -> <<>>
      [] interaction.kind = "context" -> <<ResolveTarget(interaction)>>
      [] interaction.kind = "select" -> <<>>

\* Mutant of InteractionCreateCallback: a context-menu interaction whose
\* target does not resolve is skipped instead of invoked.
InteractionSkipsAbsentTarget(interaction) ==
    IF ~Has(commands, interaction.name)
    THEN [calls |-> <<>>, raised |-> TRUE]
    ELSE IF /\ commands[interaction.name].callback # "none"
            /\ ~(interaction.kind = "context"
                    /\ ~ResolveTarget(interaction).present)
    THEN [calls |-> << [callback |-> commands[interaction.name].callback,
                        args |-> CallbackArgs(interaction)] >>,
          raised |-> FALSE]
    ELSE [calls |-> <<>>, raised |-> FALSE]

\* Mutant of InteractionCreateCallback: the permission evaluation of the
\* text path is applied to the invoking member before the callback runs.
InteractionChecksPermissions(interaction) ==
    IF ~Has(commands, interaction.name)
    THEN [calls |-> <<>>, raised |-> TRUE]
    ELSE IF Invokes(interaction, commands[interaction.name])
    THEN [calls |-> << [callback |-> commands[interaction.name].callback,
                        args |-> CallbackArgs(interaction)] >>,
          raised |-> FALSE]
    ELSE [calls |-> <<>>, raised |-> FALSE]

\* lines 98-143: the one branch an interaction of exactly one kind takes.
\* this.commands[name].callback reads a property of undefined when the name
\* is not registered, which raises a TypeError.
InteractionCreateCallback(interaction) ==
    IF ~Has(commands, interaction.name)
    THEN [calls |-> <<>>, raised |-> TRUE]
    ELSE IF commands[interaction.name].callback # "none"
    THEN [calls |-> << [callback |-> commands[interaction.name].callback,
                        args |-> CallbackArgs(interaction)] >>,
          raised |-> FALSE]
    ELSE [calls |-> <<>>, raised |-> FALSE]

\* EventEmitter.emit with n listeners running the same callback: a listener
\* that throws ends the emit, so the listeners after it do not run.
Emit(n, result) ==
    IF n = 0 THEN [calls |-> <<>>, raised |-> FALSE]
    ELSE IF result.raised THEN result
    ELSE [calls |-> Repeat(result.calls, n), raised |-> FALSE]

---------------------------------------------------------------------------
(* Operations *)

\* constructor(prefix?): this.prefix is the argument if it is a non-empty
\* string and stays "!" otherwise; both registries empty; nothing subscribed.
Constructed(p) ==
    /\ prefix = IF p # <<>> THEN p ELSE <<"!">>
    /\ messageCommands = <<>>
    /\ commands = <<>>
    /\ globalPayloads = <<>>
    /\ guildPayloads = <<>>
    /\ pushCount = 0
    /\ pushedGlobal = <<>>
    /\ pushedGuild = <<>>
    /\ loginAwaiting = 0
    /\ loginCalls = 0
    /\ readyListeners = 0
    /\ messageListeners = 0
    /\ interactionListeners = 0
    /\ readyEmitted = FALSE
    /\ attempted = {}
    /\ queuedAtLogin = << <<>>, <<>> >>
    /\ pending = {}
    /\ obs = [op |-> "constructor"]

\* Mutant of SetPrefix: the listeners keep the prefix that was set when
\* they were subscribed.
SetPrefixBeforeLogin(p) ==
    /\ prefix' = IF messageListeners > 0 THEN prefix ELSE p
    /\ obs' = [prefix |-> p, op |-> "setPrefix"]
    /\ UNCHANGED <<messageCommands, commands, globalPayloads, guildPayloads,
                   pushCount, pushedGlobal, pushedGuild, loginAwaiting,
                   loginCalls, readyListeners, messageListeners,
                   interactionListeners, readyEmitted, attempted,
                   queuedAtLogin, pending>>

\* setPrefix(prefix)
SetPrefix(p) ==
    /\ prefix' = p
    /\ obs' = [prefix |-> p, op |-> "setPrefix"]
    /\ UNCHANGED <<messageCommands, commands, globalPayloads, guildPayloads,
                   pushCount, pushedGlobal, pushedGuild, loginAwaiting,
                   loginCalls, readyListeners, messageListeners,
                   interactionListeners, readyEmitted, attempted,
                   queuedAtLogin, pending>>

\* login(token), up to the await: client.login starts the connection and
\* the method is suspended until its promise settles.
LoginStart ==
    /\ loginCalls < MaxLogins
    /\ loginCalls' = loginCalls + 1
    /\ loginAwaiting' = loginAwaiting + 1
    /\ queuedAtLogin' = IF loginCalls = 0
                        THEN <<globalPayloads, guildPayloads>>
                        ELSE queuedAtLogin
    /\ obs' = [op |-> "login"]
    /\ UNCHANGED <<prefix, messageCommands, commands, globalPayloads,
                   guildPayloads, pushCount, pushedGlobal, pushedGuild,
                   readyListeners, messageListeners, interactionListeners,
                   readyEmitted, attempted, pending>>

\* Mutant of LoginResume: the message and interaction listeners are
\* subscribed twice.
LoginResumeTwice ==
    /\ loginAwaiting > 0
    /\ loginAwaiting' = loginAwaiting - 1
    /\ readyListeners' = readyListeners + 1
    /\ messageListeners' = messageListeners + 2
    /\ interactionListeners' = interactionListeners + 2
    /\ obs' = [op |-> "subscribed"]
    /\ UNCHANGED <<prefix, messageCommands, commands, globalPayloads,
                   guildPayloads, pushCount, pushedGlobal, pushedGuild,
                   loginCalls, readyEmitted, attempted,
                   queuedAtLogin, pending>>

\* login(token), after the await: the three registerEvent calls.  Each
\* event has a callback, so registerEvent subscribes it: "ready" with
\* client.once, the other two with client.on.
LoginResume ==
    /\ loginAwaiting > 0
    /\ loginAwaiting' = loginAwaiting - 1
    /\ readyListeners' = readyListeners + 1
    /\ messageListeners' = messageListeners + 1
    /\ interactionListeners' = interactionListeners + 1
    /\ obs' = [op |-> "subscribed"]
    /\ UNCHANGED <<prefix, messageCommands, commands, globalPayloads,
                   guildPayloads, pushCount, pushedGlobal, pushedGuild,
                   loginCalls, readyEmitted, attempted,
                   queuedAtLogin, pending>>

\* The connection signals ready (once, after client.login was called): every
\* pending once-listener runs Payload.pushPayloads() and is removed.
Ready ==
    /\ loginCalls > 0
    /\ ~readyEmitted
    /\ readyEmitted' = TRUE
    /\ pushCount' = pushCount + readyListeners
    /\ pushedGlobal' = IF readyListeners > 0 THEN globalPayloads
                       ELSE pushedGlobal
    /\ pushedGuild' = IF readyListeners > 0 THEN guildPayloads
                      ELSE pushedGuild
    /\ readyListeners' = 0
    /\ obs' = [op |-> "ready"]
    /\ UNCHANGED <<prefix, messageCommands, commands, globalPayloads,
                   guildPayloads, loginAwaiting, loginCalls,
                   messageListeners, interactionListeners, attempted,
                   queuedAtLogin, pending>>

\* Mutant of Accepted: no check that the name is already registered, so a
\* later definition overwrites the entry.
AcceptedOverwrites(registry, command) == command.callback # "none"

\* Mutant of Accepted: no check that the definition has a callback.
AcceptedWithoutCallback(registry, command) == ~Has(registry, command.name)

\* lines 161-168 / 175-183: the definition is inserted
Accepted(registry, command) ==
    ~Has(registry, command.name) /\ command.callback # "none"

\* registerMessageCommand(command)
RegisterMessageCommand(command) ==
    /\ attempted' = attempted \cup {<<"text", command.name>>}
    /\ messageCommands' =
          IF Accepted(messageCommands, command)
          THEN Put(messageCommands, command.name, command)
          ELSE messageCommands
    /\ obs' = [name |-> command.name, callback |-> command.callback,
               result |-> Accepted(messageCommands, command),
               op |-> "registerMessageCommand"]
    /\ UNCHANGED <<prefix, commands, globalPayloads, guildPayloads,
                   pushCount, pushedGlobal, pushedGuild, loginAwaiting,
                   loginCalls, readyListeners, messageListeners,
                   interactionListeners, readyEmitted,
                   queuedAtLogin, pending>>

\* Mutant of Forwarded: every kind of definition is forwarded.
ForwardedAlways(command) == TRUE

\* line 187: the definition is a SlashCommand or a ContextMenuCommand
Forwarded(command) == command.kind \in {"slash", "context"}

\* registerCommandObject with the forwarding decided by toGuild / toGlobal
\* (used by the mutants of RegisterCommandObject)
RegisterCommandObjectWith(command, toGuild, toGlobal) ==
    LET accepted == Accepted(commands, command)
    IN  /\ attempted' = attempted \cup {<<"interaction", command.name>>}
        /\ commands' =
              IF accepted THEN Put(commands, command.name, command)
              ELSE commands
        /\ guildPayloads' =
              IF toGuild
              THEN Append(guildPayloads,
                          [permissions |-> command.permissions,
                           hasPermissions |-> command.hasPermissions,
                           guildId |-> command.guildId,
                           data |-> command.name])
              ELSE guildPayloads
        /\ globalPayloads' =
              IF toGlobal THEN Append(globalPayloads, command.name)
              ELSE globalPayloads
        /\ obs' = [name |-> command.name, callback |-> command.callback,
                   result |-> accepted, op |-> "registerCommandObject"]
        /\ UNCHANGED <<prefix, messageCommands, pushCount, pushedGlobal,
                       pushedGuild, loginAwaiting, loginCalls,
                       readyListeners, messageListeners,
                       interactionListeners, readyEmitted, queuedAtLogin, pending>>

\* Mutant of RegisterCommandObject: forward-then-insert, the payload is
\* queued before the name is checked against the registry.
RegisterForwardsFirst(command) ==
    RegisterCommandObjectWith(
        command,
        command.callback # "none" /\ Forwarded(command) /\ command.hasGuild,
        command.callback # "none" /\ Forwarded(command) /\ ~command.hasGuild)

\* Mutant of RegisterCommandObject: the guild id is ignored, every forwarded
\* definition is queued globally.
RegisterAlwaysGlobal(command) ==
    RegisterCommandObjectWith(
        command, FALSE, Accepted(commands, command) /\ Forwarded(command))

\* registerCommandObject(command)
RegisterCommandObject(command) ==
    LET accepted == Accepted(commands, command)
    IN  /\ attempted' = attempted \cup {<<"interaction", command.name>>}
        /\ commands' =
              IF accepted THEN Put(commands, command.name, command)
              ELSE commands
        /\ guildPayloads' =
              IF accepted /\ Forwarded(command) /\ command.hasGuild
              THEN Append(guildPayloads,
                          [permissions |-> command.permissions,
                           hasPermissions |-> command.hasPermissions,
                           guildId |-> command.guildId,
                           data |-> command.name])
              ELSE guildPayloads
        /\ globalPayloads' =
              IF accepted /\ Forwarded(command) /\ ~command.hasGuild
              THEN Append(globalPayloads, command.name)
              ELSE globalPayloads
        /\ obs' = [name |-> command.name, callback |-> command.callback,
                   result |-> accepted, op |-> "registerCommandObject"]
        /\ UNCHANGED <<prefix, messageCommands, pushCount, pushedGlobal,
                       pushedGuild, loginAwaiting, loginCalls,
                       readyListeners, messageListeners,
                       interactionListeners, readyEmitted,
                   queuedAtLogin, pending>>

\* What a user callback does when it is called: it returns (a value or an
\* already settled promise), it returns a promise that is still pending, or
\* it throws.
Outcomes == {"returns", "pending", "throws"}

\* the callbacks named in a sequence of calls
CalledIn(calls) == {calls[k].callback : k \in DOMAIN calls}

\* The connection emits messageCreate: every subscribed listener runs the
\* callback of lines 51-94.  The value the user callback returns is dropped
\* (lines 68, 74, 81, 87); an exception it throws leaves the listener.
MessageCreateWith(message, outcome) ==
    LET calls == MessageCreateCallback(message)
        out == Emit(messageListeners,
                    [calls |-> calls,
                     raised |-> outcome = "throws" /\ calls # <<>>])
    IN  /\ loginCalls > 0
        /\ obs' = [calls |-> out.calls, raised |-> out.raised,
                   op |-> "messageCreate", event |-> message]
        /\ pending' = IF outcome = "pending"
                      THEN pending \cup CalledIn(out.calls)
                      ELSE pending
        /\ UNCHANGED <<prefix, messageCommands, commands, globalPayloads,
                       guildPayloads, pushCount, pushedGlobal, pushedGuild,
                       loginAwaiting, loginCalls, readyListeners,
                       messageListeners, interactionListeners, readyEmitted,
                       attempted, queuedAtLogin>>

\* messageCreate with a callback that returns
MessageCreate(message) == MessageCreateWith(message, "returns")

\* The connection emits interactionCreate: every subscribed listener runs
\* the callback of lines 98-143.  The value the user callback returns is
\* dropped (lines 104, 110, 134, 140).
InteractionCreateWith(interaction, outcome) ==
    LET result == InteractionCreateCallback(interaction)
        out == Emit(interactionListeners,
                    [calls |-> result.calls,
                     raised |-> \/ result.raised
                                \/ (outcome = "throws"
                                    /\ result.calls # <<>>)])
    IN  /\ loginCalls > 0
        /\ obs' = [calls |-> out.calls, raised |-> out.raised,
                   op |-> "interactionCreate", event |-> interaction]
        /\ pending' = IF outcome = "pending"
                      THEN pending \cup CalledIn(out.calls)
                      ELSE pending
        /\ UNCHANGED <<prefix, messageCommands, commands, globalPayloads,
                       guildPayloads, pushCount, pushedGlobal, pushedGuild,
                       loginAwaiting, loginCalls, readyListeners,
                       messageListeners, interactionListeners, readyEmitted,
                       attempted, queuedAtLogin>>

\* interactionCreate with a callback that returns
InteractionCreate(interaction) == InteractionCreateWith(interaction, "returns")

\* The promise a callback returned settles, fulfilled or rejected.  No code
\* of the client is attached to it.
Settle(callback, rejected) ==
    /\ callback \in pending
    /\ pending' = pending \ {callback}
    /\ obs' = [callback |-> callback, op |-> "settle",
               rejected |-> rejected]
    /\ UNCHANGED <<prefix, messageCommands, commands, globalPayloads,
                   guildPayloads, pushCount, pushedGlobal, pushedGuild,
                   loginAwaiting, loginCalls, readyListeners,
                   messageListeners, interactionListeners, readyEmitted,
                   attempted, queuedAtLogin>>

---------------------------------------------------------------------------
(* Inputs *)

\* text definitions: name, callback (or none), and no rule set or one of
\* rules
MessageCommandsOver(names, callbacks, rules) ==
    {c \in [permissions : rules \cup {NoRules}, name : names,
            callback : callbacks, hasPermissions : BOOLEAN] :
        IF c.hasPermissions THEN c.permissions \in rules
        ELSE c.permissions = NoRules}

\* interaction definitions: name, kind, callback (or none), optional guild
\* id, and no rule set or one of rules
CommandObjectsOver(names, kinds, callbacks, guilds, rules) ==
    {c \in [permissions : rules \cup {NoRules}, name : names,
            callback : callbacks, hasPermissions : BOOLEAN,
            hasGuild : BOOLEAN, kind : kinds,
            guildId : guilds \cup {"none"}] :
        /\ (c.hasGuild <=> c.guildId # "none")
        /\ IF c.hasPermissions THEN c.permissions \in rules
           ELSE c.permissions = NoRules}

\* a message with the given content whose member is m
MessageFrom(content, m) ==
    [hasMember |-> m.hasMember, bot |-> m.bot,
     permissions |-> m.permissions, roles |-> m.roles, content |-> content]

\* a message with the given content from a resolved, non-bot member
PlainMessage(content) == MessageFrom(content, PlainMember)

\* interactions of the given kinds.  The target fields are those of a
\* context-menu interaction: a USER target names user "u1", a MESSAGE
\* target names message "m1"; the guild's member cache and the channel's
\* message cache hold that id or not.
InteractionsOver(names, kinds) ==
    {i \in [name : names, hasGuild : BOOLEAN,
            targetType : {"USER", "MESSAGE", "none"},
            targetId : {"u1", "m1", "none"}, members : SUBSET {"u1"},
            hasChannel : BOOLEAN, messages : SUBSET {"m1"}, kind : kinds,
            options : {<<>>, <<"opt">>}] :
        /\ (i.kind = "slash" <=> i.options # <<>>)
        /\ (~i.hasGuild => i.members = {})
        /\ (~i.hasChannel => i.messages = {})
        /\ (i.kind = "context" <=> i.targetType # "none")
        /\ (i.targetType = "USER" => i.targetId = "u1" /\ ~i.hasChannel)
        /\ (i.targetType = "MESSAGE" => i.targetId = "m1" /\ i.members = {})
        /\ (i.targetType = "none"
               => i.targetId = "none" /\ ~i.hasGuild /\ ~i.hasChannel)}

---------------------------------------------------------------------------
(* Spec: interaction definitions of the four kinds and their routing *)

Init == Constructed(<<>>)

RegisterInteraction ==
    \E c \in CommandObjectsOver(Names, Kinds, {"none", "cb1"}, {}, {}) :
        RegisterCommandObject(c)

RouteInteraction ==
    \E i \in InteractionsOver(Names, Kinds) : InteractionCreate(i)

Next ==
    \/ LoginStart
    \/ LoginResume
    \/ RegisterInteraction
    \/ RouteInteraction

Spec == Init /\ [][Next]_vars

---------------------------------------------------------------------------
(* Claims checked under Spec *)

\* C3 (as claimed): an interaction event whose command name / custom id is
\* not in the interaction registry invokes no callback and raises no error.
C3_UnregisteredIsSilent ==
    (obs.op = "interactionCreate" /\ ~Has(commands, obs.event.name))
        => (obs.calls = <<>> /\ ~obs.raised)

\* the target the claim describes: present exactly when the guild is
\* present and the named user is a cached member of it, or the channel is
\* present and the named message is cached in it
DescribedTarget(event) ==
    IF /\ event.hasGuild
       /\ \/ (event.targetType = "USER" /\ event.targetId \in event.members)
          \/ /\ event.targetType = "MESSAGE"
             /\ event.hasChannel
             /\ event.targetId \in event.messages
    THEN [present |-> TRUE,
          type |-> IF event.targetType = "USER" THEN "user" ELSE "message",
          id |-> event.targetId]
    ELSE NoTarget

---------------------------------------------------------------------------
(* SpecRegister: registrations in both namespaces, with and without a     *)
(* callback, and the events that look the registered names up             *)

RegisterText ==
    \E c \in MessageCommandsOver(Names, Callbacks \cup {"none"}, {}) :
        RegisterMessageCommand(c)

RegisterSlashOrButton ==
    \E c \in CommandObjectsOver(Names, {"slash", "button"},
                                Callbacks \cup {"none"}, {}, {}) :
        RegisterCommandObject(c)

RouteNamedText == \E n \in Names : MessageCreate(PlainMessage(prefix \o n))

RouteSlashOrButton ==
    \E i \in InteractionsOver(Names, {"slash", "button"}) :
        InteractionCreate(i)

NextRegister ==
    \/ LoginStart
    \/ LoginResume
    \/ RegisterText
    \/ RegisterSlashOrButton
    \/ RouteNamedText
    \/ RouteSlashOrButton

SpecRegister == Init /\ [][NextRegister]_vars

InvokedName(message) ==
    Substring(Head(Split(message.content)), Len(prefix))

---------------------------------------------------------------------------
(* SpecLogin: login, the ready signal, and the payloads queued by         *)
(* registrations made before and after them                               *)

RegisterGlobal ==
    \E c \in CommandObjectsOver(Names, {"slash", "button"}, {"cb1"}, {}, {}) :
        RegisterCommandObject(c)

NextLogin ==
    \/ LoginStart
    \/ LoginResume
    \/ Ready
    \/ RegisterGlobal

SpecLogin == Init /\ [][NextLogin]_vars

\* s is an initial segment of t
IsPrefix(s, t) == Len(s) <= Len(t) /\ SubSeq(t, 1, Len(s)) = s

\* C4 (as claimed): the payload set is never flushed more than once nor
\* before the ready signal, and once the connection has signalled ready and
\* every login call has completed it has been flushed exactly once, the
\* flush covering every payload queued before login.
C4_FlushedExactlyOnce ==
    /\ pushCount <= 1
    /\ (pushCount > 0 => readyEmitted)
    /\ (readyEmitted /\ loginAwaiting = 0)
          => /\ pushCount = 1
             /\ IsPrefix(queuedAtLogin[1], pushedGlobal)
             /\ IsPrefix(queuedAtLogin[2], pushedGuild)

---------------------------------------------------------------------------
(* SpecPerm: one text command with any rule set, invoked by any author    *)

RegisterRuled ==
    \E c \in MessageCommandsOver({<<"a">>}, {"cb1"}, RuleSets) :
        RegisterMessageCommand(c)

RouteFromMember ==
    \E m \in Members : MessageCreate(MessageFrom(prefix \o <<"a">>, m))

NextPerm ==
    \/ LoginStart
    \/ LoginResume
    \/ RegisterRuled
    \/ RouteFromMember

SpecPerm == Init /\ [][NextPerm]_vars

\* the last operation routed a message that names a registered text
\* command, written by a resolved, non-bot author
Matched ==
    /\ obs.op = "messageCreate"
    /\ messageListeners > 0
    /\ IsInvocation(Head(Split(obs.event.content)))
    /\ Has(messageCommands, InvokedName(obs.event))

ResolvedAuthor == obs.event.hasMember /\ ~obs.event.bot

\* the rule set of the matched command
MatchedRules == messageCommands[InvokedName(obs.event)].permissions
HasRules == messageCommands[InvokedName(obs.event)].hasPermissions

CallbackInvoked == obs.calls # <<>>

\* C2 (as claimed): with non-empty capability flags the callback is invoked
\* if and only if the author holds one of the listed flags.
C2_FlagsAloneDecide ==
    (Matched /\ ResolvedAuthor /\ HasRules
        /\ MatchedRules.hasFlags /\ MatchedRules.flags # {})
        => (CallbackInvoked
               <=> obs.event.permissions \cap MatchedRules.flags # {})

\* C5 (as claimed): a rule set with empty flags, an empty allow list and an
\* empty deny list allows every resolved, non-bot author.
C5_EmptyRuleSetAllows ==
    (Matched /\ ResolvedAuthor /\ HasRules
        /\ MatchedRules.flags = {} /\ MatchedRules.allowed = {}
        /\ MatchedRules.denied = {})
        => CallbackInvoked

\* C6 (as claimed): an author holding a role of a non-empty deny list is
\* denied.
C6_DenyAlwaysWins ==
    (Matched /\ ResolvedAuthor /\ HasRules /\ MatchedRules.hasDenied
        /\ obs.event.roles \cap MatchedRules.denied # {})
        => ~CallbackInvoked

\* C6 (amended): an author holding a role of a non-empty deny list and none
\* of the rule set's capability flags is denied, also when the allow list
\* holds that role or another role of the author.
C6_DenyBeatsAllow ==
    (Matched /\ ResolvedAuthor /\ HasRules /\ MatchedRules.hasDenied
        /\ obs.event.roles \cap MatchedRules.denied # {}
        /\ obs.event.permissions \cap MatchedRules.flags = {})
        => ~CallbackInvoked

\* C6 witness: the author's role is in the deny list and in the allow list,
\* and the callback was not invoked.
C6_Witness ==
    /\ Matched /\ ResolvedAuthor /\ HasRules
    /\ MatchedRules.hasDenied /\ MatchedRules.hasAllowed
    /\ obs.event.roles \cap MatchedRules.denied \cap MatchedRules.allowed # {}
    /\ ~CallbackInvoked

\* C7: with an allow list, no deny list and no capability flags, the
\* callback is invoked if and only if the author holds a role of the allow
\* list.
C7_AllowListDecides ==
    (Matched /\ ResolvedAuthor /\ HasRules /\ MatchedRules.hasAllowed
        /\ ~MatchedRules.hasDenied /\ MatchedRules.flags = {})
        => (CallbackInvoked
               <=> obs.event.roles \cap MatchedRules.allowed # {})

\* C7 witness: allow list {roleA}, author holding {roleA, roleB}: invoked.
C7_Witness ==
    /\ Matched /\ ResolvedAuthor /\ HasRules
    /\ MatchedRules.hasAllowed /\ MatchedRules.allowed = {"roleA"}
    /\ ~MatchedRules.hasDenied /\ ~MatchedRules.hasFlags
    /\ obs.event.roles = {"roleA", "roleB"}
    /\ obs.calls = << [callback |-> "cb1", args |-> << <<>> >>] >>

---------------------------------------------------------------------------
(* SpecTok: any message content against any prefix                        *)

ChangePrefix == \E p \in Prefixes : SetPrefix(p)

RegisterNamed ==
    \E c \in MessageCommandsOver({<<"a">>}, {"cb1"}, {}) :
        RegisterMessageCommand(c)

RouteAnyText == \E s \in Strings(MaxLen) : MessageCreate(PlainMessage(s))

NextTok ==
    \/ ChangePrefix
    \/ LoginStart
    \/ LoginResume
    \/ RegisterNamed
    \/ RouteAnyText

SpecTok == Init /\ [][NextTok]_vars

\* C8: a message whose content does not start with the configured prefix
\* invokes no text handler.
C8_NoPrefixNoHandler ==
    (obs.op = "messageCreate" /\ ~StartsWith(obs.event.content, prefix))
        => obs.calls = <<>>

\* C8 witness: the router is subscribed, the prefix is "!", and a message
\* whose whole content is a registered name was routed: nothing invoked.
C8_Witness ==
    /\ obs.op = "messageCreate"
    /\ messageListeners > 0
    /\ prefix = <<"!">>
    /\ Has(messageCommands, obs.event.content)
    /\ obs.calls = <<>>

\* the non-empty tokens of s between runs of whitespace
WhitespaceTokens(s) == SelectSeq(Split(s), LAMBDA t : t # <<>>)

\* C9 (as claimed): a message whose first token is prefix + a registered
\* name, from a permitted author, invokes the callback with exactly the
\* remaining whitespace-separated tokens, none of them empty.
C9_ArgumentsAreTokens ==
    (Matched /\ ResolvedAuthor)
        => /\ CallbackInvoked
           /\ \A k \in 1..Len(obs.calls) :
                 /\ obs.calls[k].args =
                       <<Tail(WhitespaceTokens(obs.event.content))>>
                 /\ \A j \in 1..Len(obs.calls[k].args[1]) :
                       obs.calls[k].args[1][j] # <<>>

---------------------------------------------------------------------------
(* SpecForward: registrations of every kind, global or guild-scoped, with *)
(* or without a callback or a rule set, and the payloads they queue       *)

\* a rule set that lists one capability flag
AdminOnly == [hasFlags |-> TRUE, flags |-> {"ADMINISTRATOR"},
              hasAllowed |-> FALSE, allowed |-> {},
              hasDenied |-> FALSE, denied |-> {}]

RegisterAnyText ==
    \E c \in MessageCommandsOver(Names, {"none", "cb1"}, {}) :
        RegisterMessageCommand(c)

RegisterAnyKind ==
    \E c \in CommandObjectsOver(Names, Kinds, {"none", "cb1"}, Guilds,
                                {AdminOnly}) :
        RegisterCommandObject(c)

NextForward ==
    \/ RegisterAnyText
    \/ RegisterAnyKind

SpecForward == Init /\ [][NextForward]_vars

\* the number of queued payloads (global and guild-scoped) for name n
RECURSIVE CountGlobal(_, _)
CountGlobal(queue, n) ==
    IF queue = <<>> THEN 0
    ELSE (IF Head(queue) = n THEN 1 ELSE 0) + CountGlobal(Tail(queue), n)

RECURSIVE CountGuild(_, _)
CountGuild(queue, n) ==
    IF queue = <<>> THEN 0
    ELSE (IF Head(queue).data = n THEN 1 ELSE 0) + CountGuild(Tail(queue), n)

\* C11: after any registerCommandObject call the payload set holds at most
\* one entry per interaction identifier, and a rejected registration
\* (duplicate or callback-less) leaves the payload set as it was.
C11_OnePayloadPerIdentifier ==
    [][/\ \A n \in Names :
             CountGlobal(globalPayloads', n) + CountGuild(guildPayloads', n)
                <= 1
       /\ (obs'.op = "registerCommandObject" /\ ~obs'.result)
             => UNCHANGED <<globalPayloads, guildPayloads>>]_vars

\* C11 witness: a definition with a callback was rejected as a duplicate of
\* a forwarded name, and the name still has exactly one payload.
C11_Witness ==
    /\ obs.op = "registerCommandObject"
    /\ ~obs.result
    /\ obs.callback # "none"
    /\ CountGlobal(globalPayloads, obs.name)
          + CountGuild(guildPayloads, obs.name) = 1

\* C12: a successful registration of a button or select-menu definition
\* adds nothing to the payload set, global or guild-scoped.
C12_ButtonsNeverForwarded ==
    [][(obs'.op = "registerCommandObject" /\ obs'.result
           /\ commands'[obs'.name].kind \in {"button", "select"})
          => UNCHANGED <<globalPayloads, guildPayloads>>]_vars

\* C12 witness: a guild-scoped button was registered and nothing is queued.
C12_Witness ==
    /\ obs.op = "registerCommandObject"
    /\ obs.result
    /\ commands[obs.name].kind = "button"
    /\ commands[obs.name].hasGuild
    /\ globalPayloads = <<>>
    /\ guildPayloads = <<>>

\* C13: a successful registration of a slash or context-menu definition
\* queues exactly one payload: guild-scoped, with the guild id and the
\* definition's rule set, when a guild was specified, and global otherwise.
C13_ExactlyOnePayload ==
    [][(obs'.op = "registerCommandObject" /\ obs'.result
           /\ commands'[obs'.name].kind \in {"slash", "context"})
          => LET command == commands'[obs'.name] IN
             IF command.hasGuild
             THEN /\ guildPayloads' =
                        Append(guildPayloads,
                               [permissions |-> command.permissions,
                                hasPermissions |-> command.hasPermissions,
                                guildId |-> command.guildId,
                                data |-> command.name])
                  /\ globalPayloads' = globalPayloads
             ELSE /\ globalPayloads' = Append(globalPayloads, command.name)
                  /\ guildPayloads' = guildPayloads]_vars

\* C13 witness: a context-menu definition for guild g1 with a rule set was
\* registered: one guild payload carrying the rule set, no global payload.
C13_Witness ==
    /\ obs.op = "registerCommandObject"
    /\ obs.result
    /\ commands[obs.name].kind = "context"
    /\ globalPayloads = <<>>
    /\ guildPayloads = << [permissions |-> AdminOnly,
                           hasPermissions |-> TRUE, guildId |-> "g1",
                           data |-> obs.name] >>

\* C14: registering a definition without a callback returns false and
\* changes neither registry nor the payload set, and every definition in
\* either registry has a callback.
C14_CallbackRequired ==
    [][/\ (obs'.op \in {"registerMessageCommand", "registerCommandObject"}
             /\ obs'.callback = "none")
          => /\ ~obs'.result
             /\ UNCHANGED <<messageCommands, commands, globalPayloads,
                            guildPayloads>>
       /\ \A n \in DOMAIN messageCommands' :
             messageCommands'[n].callback # "none"
       /\ \A n \in DOMAIN commands' : commands'[n].callback # "none"]_vars

\* C14 witness: a slash definition without a callback was passed under a
\* free name: rejected, the name is still free and nothing is queued for it.
C14_Witness ==
    /\ obs.op = "registerCommandObject"
    /\ obs.callback = "none"
    /\ ~obs.result
    /\ ~Has(commands, obs.name)
    /\ \E n \in Names : Has(commands, n)

---------------------------------------------------------------------------
(* Claims checked under SpecPerm: the author checks *)

\* C15: a message that names a registered text command invokes no callback
\* and raises no error when the author is not resolved as a guild member or
\* is a bot, whatever rule set (or none) the command carries.
C15_UnresolvedOrBotIgnored ==
    (Matched /\ ~ResolvedAuthor) => (obs.calls = <<>> /\ ~obs.raised)

\* C15 witness: a bot holding a capability flag invoked a command that has
\* no rule set, and nothing was called.
C15_Witness ==
    /\ Matched
    /\ obs.event.hasMember
    /\ obs.event.bot
    /\ obs.event.permissions # {}
    /\ ~HasRules
    /\ obs.calls = <<>>

---------------------------------------------------------------------------
(* SpecAccess: interaction definitions that carry a rule set, invoked by  *)
(* any member                                                             *)

\* rule sets with an allow list only and with a deny list only
AllowRoleA == [hasFlags |-> FALSE, flags |-> {}, hasAllowed |-> TRUE,
               allowed |-> {"roleA"}, hasDenied |-> FALSE, denied |-> {}]
DenyRoleA == [hasFlags |-> FALSE, flags |-> {}, hasAllowed |-> FALSE,
              allowed |-> {}, hasDenied |-> TRUE, denied |-> {"roleA"}]

\* the interaction i with interaction.member m
InteractionFrom(i, m) ==
    [hasMember |-> m.hasMember, bot |-> m.bot,
     permissions |-> m.permissions, roles |-> m.roles, name |-> i.name,
     hasGuild |-> i.hasGuild, targetType |-> i.targetType,
     targetId |-> i.targetId, members |-> i.members,
     hasChannel |-> i.hasChannel, messages |-> i.messages, kind |-> i.kind,
     options |-> i.options]

RegisterRestricted ==
    \E c \in CommandObjectsOver({<<"a">>}, Kinds, {"cb1"}, {},
                                {AdminOnly, AllowRoleA, DenyRoleA}) :
        RegisterCommandObject(c)

RouteFromAnyMember ==
    \E i \in InteractionsOver({<<"a">>}, {"slash", "button"}), m \in Members :
        InteractionCreate(InteractionFrom(i, m))

NextAccess ==
    \/ LoginStart
    \/ LoginResume
    \/ RegisterRestricted
    \/ RouteFromAnyMember

SpecAccess == Init /\ [][NextAccess]_vars

\* C16: an interaction event whose identifier is registered makes every
\* subscribed listener invoke the definition's callback, whatever rule set
\* the definition carries and whatever the invoking member holds.
C16_InteractionsUnchecked ==
    (obs.op = "interactionCreate" /\ Has(commands, obs.event.name))
        => /\ Len(obs.calls) = interactionListeners
           /\ \A k \in 1..Len(obs.calls) :
                 obs.calls[k].callback = commands[obs.event.name].callback

\* C16 witness: the definition lists ADMINISTRATOR, the invoking member
\* holds no flag and no role, and the callback was invoked.
C16_Witness ==
    /\ obs.op = "interactionCreate"
    /\ Has(commands, obs.event.name)
    /\ commands[obs.event.name].hasPermissions
    /\ commands[obs.event.name].permissions = AdminOnly
    /\ obs.event.hasMember
    /\ obs.event.permissions = {}
    /\ interactionListeners = 1
    /\ Len(obs.calls) = 1

---------------------------------------------------------------------------
(* SpecAsync: callbacks that return, stay pending, or throw *)

RegisterReplying ==
    \E c \in MessageCommandsOver({<<"a">>}, {"cb1"}, {}) :
        RegisterMessageCommand(c)

RegisterSlash ==
    \E c \in CommandObjectsOver({<<"a">>}, {"slash"}, {"cb2"}, {}, {}) :
        RegisterCommandObject(c)

RouteTextWith ==
    \E o \in Outcomes :
        MessageCreateWith(PlainMessage(prefix \o <<"a">>), o)

RouteSlashWith ==
    \E i \in InteractionsOver({<<"a">>}, {"slash"}), o \in Outcomes :
        InteractionCreateWith(i, o)

Settles == \E cb \in Callbacks, rejected \in BOOLEAN : Settle(cb, rejected)

NextAsync ==
    \/ LoginStart
    \/ LoginResume
    \/ RegisterReplying
    \/ RegisterSlash
    \/ RouteTextWith
    \/ RouteSlashWith
    \/ Settles

SpecAsync == Init /\ [][NextAsync]_vars

\* a callback's promise is still pending, or the last thing that happened
\* is that a callback threw or that its promise was rejected
OutstandingOrFailed ==
    \/ pending # {}
    \/ (obs.op \in {"messageCreate", "interactionCreate"}
        /\ obs.calls # <<>> /\ obs.raised)
    \/ (obs.op = "settle" /\ obs.rejected)

---------------------------------------------------------------------------
(* Claims checked under Spec: dispatch by kind *)

\* C18: an interaction event whose identifier is registered as a different
\* kind than the event's invokes no callback.
C18_OnlyRegisteredKind ==
    (/\ obs.op = "interactionCreate"
     /\ Has(commands, obs.event.name)
     /\ commands[obs.event.name].kind # obs.event.kind)
        => obs.calls = <<>>

---------------------------------------------------------------------------
(* Claims checked under SpecRegister: one event, one call *)

\* C19: when login() has been called once, an event (a message or an
\* interaction of one kind) makes at most one call of a registered callback.
C19_AtMostOneCall ==
    (obs.op \in {"messageCreate", "interactionCreate"} /\ loginCalls = 1)
        => Len(obs.calls) <= 1

\* C19 witness: after one login(), with the name of the message registered
\* in both namespaces, the message made exactly one call.
C19_Witness ==
    /\ loginCalls = 1
    /\ obs.op = "messageCreate"
    /\ Has(messageCommands, InvokedName(obs.event))
    /\ Has(commands, InvokedName(obs.event))
    /\ Len(obs.calls) = 1

---------------------------------------------------------------------------
(* SpecPrefix: messages written with any of the prefixes, routed while *)
(* the prefix is changed                                               *)

RoutePrefixed ==
    \E p \in Prefixes, n \in Names : MessageCreate(PlainMessage(p \o n))

NextPrefix ==
    \/ ChangePrefix
    \/ LoginStart
    \/ LoginResume
    \/ RegisterNamed
    \/ RoutePrefixed

SpecPrefix == Init /\ [][NextPrefix]_vars

\* the first token of the routed message
RoutedCommand == Head(Split(obs.event.content))

\* C20: a client constructed without a prefix has the prefix "!"; a
\* setPrefix(p) step, before or after login, makes p the prefix and no other
\* step changes it; and every message is matched against the prefix of the
\* moment it is routed: it invokes a callback exactly when a listener is
\* subscribed, its first token starts with that prefix and the rest of the
\* token is a registered name, and then the callback is that name's.
C20_PrefixReadAtRouting ==
    /\ [](obs.op = "constructor" => prefix = <<"!">>)
    /\ [][/\ (obs'.op = "setPrefix" => prefix' = obs'.prefix)
          /\ (obs'.op # "setPrefix" => prefix' = prefix)
          /\ (obs'.op = "messageCreate" =>
                /\ (obs'.calls # <<>>) <=>
                      /\ messageListeners' > 0
                      /\ RoutedCommand' # <<>>
                      /\ StartsWith(RoutedCommand', prefix')
                      /\ Has(messageCommands',
                             Substring(RoutedCommand', Len(prefix')))
                /\ \A k \in DOMAIN obs'.calls :
                      obs'.calls[k].callback =
                        messageCommands'[Substring(RoutedCommand',
                                                   Len(prefix'))].callback)
         ]_vars

\* C20 witness: with the prefix changed to "a", the message "!a", written
\* with the previous prefix, invoked nothing although "a" is registered.
C20_Witness ==
    /\ obs.op = "messageCreate"
    /\ prefix = <<"a">>
    /\ messageListeners > 0
    /\ obs.event.content = <<"!", "a">>
    /\ Has(messageCommands, <<"a">>)
    /\ obs.calls = <<>>

=============================================================================
